---- MODULE Spec2Model ----
(***************************************************************************)
(* Model of old_ddf_ex.py: dbfreader (a generator decoding a DBF byte      *)
(* stream) and dbfwriter (encoding field names, field specs and records).  *)
(*                                                                         *)
(* Bytes and characters are integers (code points); byte strings and text  *)
(* are sequences of them.  A Python value is a record                      *)
(*   [k |-> kind, n |-> integer part, sc |-> scale, s |-> characters]      *)
(* with kind one of int, decimal, float, str, date, bool, or the name of   *)
(* the exception the computation raised.  The interpreter is Python 3      *)
(* (struct.unpack returns bytes; bytes and str are distinct types).        *)
(***************************************************************************)
EXTENDS Integers, Sequences, FiniteSets, TLC

VARIABLES
    fieldnames,   \* dbfwriter argument: list of names
    fieldspecs,   \* dbfwriter argument: list of (typ, size, deci)
    records,      \* dbfwriter argument: list of records (lists of values)
    today,        \* datetime.datetime.now() as <<year, month, day>>
    f,            \* the file: a sequence of bytes
    wpc,          \* dbfwriter's position
    wi,           \* dbfwriter: descriptors written so far
    wr,           \* dbfwriter: records completed so far
    wv,           \* dbfwriter: values written in the current record
    slots,        \* dbfwriter: byte size of every record slot written
    werr,         \* exception raised by dbfwriter ("none" if none)
    pos,          \* dbfreader: read position in f
    rpc,          \* dbfreader's position
    numrec,       \* dbfreader local
    lenheader,    \* dbfreader local
    numfields,    \* dbfreader local
    fields,       \* dbfreader local: list of (name, typ, size, deci)
    ri,           \* dbfreader: record slots consumed so far
    out,          \* everything dbfreader has yielded, in order
    rerr,         \* exception raised by dbfreader ("none" if none)
    inp,          \* the structured input a reader-only run was built from
    fld,          \* field decode/encode run: the field and its input
    res           \* field decode/encode run: the result

vars == <<fieldnames, fieldspecs, records, today, f, wpc, wi, wr, wv, slots,
          werr, pos, rpc, numrec, lenheader, numfields, fields, ri, out,
          rerr, inp, fld, res>>

wvars == <<fieldnames, fieldspecs, records, today, wpc, wi, wr, wv, slots, werr>>
rvars == <<pos, rpc, numrec, lenheader, numfields, fields, ri, out, rerr>>

----------------------------------------------------------------------------
(* Bytes the code names. *)

SP == 32
NUL == 0
CR == 13
EOFMARK == 26
VER == 3
TypN == 78
TypD == 68
TypL == 76
TypF == 70
TypC == 67

Digits == 48..57

\* Characters str.strip()/lstrip() and int()/float()/Decimal() treat as whitespace (ASCII).
Whitespace == {9, 10, 11, 12, 13, 28, 29, 30, 31, 32}

YyTt == <<89, 121, 84, 116>>
NnFf == <<78, 110, 70, 102>>

----------------------------------------------------------------------------
(* Sequence helpers. *)

Min(a, b) == IF a < b THEN a ELSE b
Max(a, b) == IF a > b THEN a ELSE b

Take(s, n) == SubSeq(s, 1, Min(n, Len(s)))
Drop(s, n) == SubSeq(s, n + 1, Len(s))
Slice(s, a, b) == SubSeq(s, Min(a, Len(s)) + 1, Min(b, Len(s)))

Rep(c, n) == [i \in 1..n |-> c]

RECURSIVE SumSizes(_)
SumSizes(specs) ==
    IF specs = <<>> THEN 0 ELSE Head(specs).size + SumSizes(Tail(specs))

RECURSIVE Pow(_, _)
Pow(b, e) == IF e = 0 THEN 1 ELSE b * Pow(b, e - 1)

\* str.replace('\0', '')
RemoveNul(s) == SelectSeq(s, LAMBDA c : c # NUL)

RECURSIVE LStrip(_)
LStrip(s) ==
    IF s # <<>> /\ Head(s) \in Whitespace THEN LStrip(Tail(s)) ELSE s

RECURSIVE RStrip(_)
RStrip(s) ==
    IF s # <<>> /\ s[Len(s)] \in Whitespace THEN RStrip(SubSeq(s, 1, Len(s) - 1)) ELSE s

Strip(s) == RStrip(LStrip(s))

\* Python's  a in b  for two strings: a is a contiguous part of b.
IsSubstring(a, b) ==
    \E i \in 0..(Len(b) - Len(a)) : SubSeq(b, i + 1, i + Len(a)) = a

IsAscii(s) == \A i \in 1..Len(s) : s[i] < 128

\* str.ljust(n, c) and str.rjust(n, c): never shorten
LJust(s, n, c) == IF Len(s) >= n THEN s ELSE s \o Rep(c, n - Len(s))
RJust(s, n, c) == IF Len(s) >= n THEN s ELSE Rep(c, n - Len(s)) \o s

\* str.upper() on one character
Upper(c) == IF c \in 97..122 THEN c - 32 ELSE c

----------------------------------------------------------------------------
(* Python values. *)

PyInt(n) == [k |-> "int", n |-> n, sc |-> 0, s |-> <<>>]
PyDecimal(n, sc) == [k |-> "decimal", n |-> n, sc |-> sc, s |-> <<>>]
PyFloat(n, sc) == [k |-> "float", n |-> n, sc |-> sc, s |-> <<>>]
PyStr(s) == [k |-> "str", n |-> 0, sc |-> 0, s |-> s]
PyDate(y, m, d) == [k |-> "date", n |-> 0, sc |-> 0, s |-> <<y, m, d>>]
PyBool(b) == [k |-> "bool", n |-> IF b THEN 1 ELSE 0, sc |-> 0, s |-> <<>>]
Raise(e) == [k |-> e, n |-> 0, sc |-> 0, s |-> <<>>]

Exceptions == {"TypeError", "ValueError", "InvalidOperation", "UnicodeDecodeError",
               "UnicodeEncodeError", "AssertionError", "AttributeError",
               "IndexError", "struct.error"}

IsError(v) == v.k \in Exceptions

----------------------------------------------------------------------------
(* Number parsing, as int(), decimal.Decimal() and float() do it on text    *)
(* made of whitespace, a sign, digits, underscores and a decimal point.     *)

RECURSIVE DigitsValue(_)
DigitsValue(s) ==
    IF s = <<>> THEN 0 ELSE DigitsValue(SubSeq(s, 1, Len(s) - 1)) * 10 + (s[Len(s)] - 48)

HasSign(s) == s # <<>> /\ Head(s) \in {45, 43}   \* '-' or '+'
Unsigned(s) == IF HasSign(s) THEN Tail(s) ELSE s
SignOf(s) == IF s # <<>> /\ Head(s) = 45 THEN -1 ELSE 1

\* digits, with single underscores (95) allowed between two digits
GroupedDigits(s) ==
    /\ s # <<>>
    /\ \A i \in 1..Len(s) :
        \/ s[i] \in Digits
        \/ /\ s[i] = 95
           /\ 1 < i /\ i < Len(s)
           /\ s[i - 1] \in Digits /\ s[i + 1] \in Digits

OnlyDigits(s) == SelectSeq(s, LAMBDA c : c \in Digits)

\* int(text)
ParseInt(text) ==
    LET t == Strip(text)
        u == Unsigned(t)
    IN  IF GroupedDigits(u) THEN PyInt(SignOf(t) * DigitsValue(OnlyDigits(u)))
        ELSE Raise("ValueError")

\* position of the first '.', or 0
DotAt(s) == IF \E i \in 1..Len(s) : s[i] = 46
            THEN CHOOSE i \in 1..Len(s) : s[i] = 46 /\ \A j \in 1..(i - 1) : s[j] # 46
            ELSE 0

\* decimal.Decimal(text): underscores are dropped, then  [sign] digits [. digits]
\* or  [sign] . digits ; the exponent is minus the number of fraction digits.
ParseDecimal(text) ==
    LET t == SelectSeq(Strip(text), LAMBDA c : c # 95)
        u == Unsigned(t)
        d == DotAt(u)
        ip == IF d = 0 THEN u ELSE SubSeq(u, 1, d - 1)
        fp == IF d = 0 THEN <<>> ELSE SubSeq(u, d + 1, Len(u))
    IN  IF /\ \A i \in 1..Len(ip) : ip[i] \in Digits
           /\ \A i \in 1..Len(fp) : fp[i] \in Digits
           /\ Len(ip) + Len(fp) > 0
        THEN PyDecimal(SignOf(t) * DigitsValue(ip \o fp), Len(fp))
        ELSE Raise("InvalidOperation")

RECURSIVE Normalize(_, _)
Normalize(n, sc) ==
    IF sc > 0 /\ n % 10 = 0 THEN Normalize(n \div 10, sc - 1) ELSE PyFloat(n, sc)

\* float(text): the same literals, underscores only between digits; the value
\* is kept as the shortest decimal that denotes it.
ParseFloat(text) ==
    LET t == Strip(text)
        u == Unsigned(t)
        d == DotAt(u)
        ip == IF d = 0 THEN u ELSE SubSeq(u, 1, d - 1)
        fp == IF d = 0 THEN <<>> ELSE SubSeq(u, d + 1, Len(u))
    IN  IF /\ ip = <<>> \/ GroupedDigits(ip)
           /\ fp = <<>> \/ GroupedDigits(fp)
           /\ Len(ip) + Len(fp) > 0
        THEN Normalize(SignOf(t) * DigitsValue(OnlyDigits(ip \o fp)), Len(OnlyDigits(fp)))
        ELSE Raise("ValueError")

IsLeap(y) == (y % 4 = 0 /\ y % 100 # 0) \/ y % 400 = 0

DaysInMonth(y, m) ==
    IF m = 2 THEN (IF IsLeap(y) THEN 29 ELSE 28)
    ELSE IF m \in {4, 6, 9, 11} THEN 30 ELSE 31

\* datetime.date(y, m, d)
MakeDate(y, m, d) ==
    IF y \in 1..9999 /\ m \in 1..12 /\ d \in 1..DaysInMonth(y, m)
    THEN PyDate(y, m, d)
    ELSE Raise("ValueError")

----------------------------------------------------------------------------
(* dbfreader, lines 44-65: the conversion of one field's raw bytes. *)

\* lines 47-54 with float() in place of decimal.Decimal()
DecodeNumericAsFloat(deci, raw) ==
    IF ~IsAscii(raw) THEN Raise("UnicodeDecodeError")
    ELSE LET value == LStrip(RemoveNul(raw))
         IN  IF value = <<>> THEN PyInt(0)
             ELSE IF deci # 0 THEN ParseFloat(value)
             ELSE ParseInt(value)

DecodeNumeric(deci, raw) ==
    IF ~IsAscii(raw) THEN Raise("UnicodeDecodeError")
    ELSE LET value == LStrip(RemoveNul(raw))
         IN  IF value = <<>> THEN PyInt(0)
             ELSE IF deci # 0 THEN ParseDecimal(value)
             ELSE ParseInt(value)

DecodeDate(raw) ==
    IF ~IsAscii(raw) THEN Raise("UnicodeDecodeError")
    ELSE LET y == ParseInt(Slice(raw, 0, 4))
             m == ParseInt(Slice(raw, 4, 6))
             d == ParseInt(Slice(raw, 6, 8))
         IN  IF IsError(y) \/ IsError(m) \/ IsError(d) THEN Raise("ValueError")
             ELSE MakeDate(y.n, m.n, d.n)

\* (value.decode('ascii') in 'YyTt' and 'T') or (value in 'NnFf' and 'F') or '?'
\* The second operand tests a bytes object against a str, which raises TypeError.
DecodeLogical(raw) ==
    IF ~IsAscii(raw) THEN Raise("UnicodeDecodeError")
    ELSE IF IsSubstring(raw, YyTt) THEN PyStr(<<84>>)
    ELSE Raise("TypeError")

DecodeFloat(raw) ==
    IF ~IsAscii(raw) THEN Raise("UnicodeDecodeError") ELSE ParseFloat(raw)

DecodeText(raw) ==
    IF ~IsAscii(raw) THEN Raise("UnicodeDecodeError") ELSE PyStr(Strip(raw))

DecodeValue(typ, deci, raw) ==
    IF typ = TypN THEN DecodeNumeric(deci, raw)
    ELSE IF typ = TypD THEN DecodeDate(raw)
    ELSE IF typ = TypL THEN DecodeLogical(raw)
    ELSE IF typ = TypF THEN DecodeFloat(raw)
    ELSE DecodeText(raw)

----------------------------------------------------------------------------
(* struct.pack / struct.unpack of little-endian unsigned integers. *)

\* the k little-endian bytes of n
LE(n, k) == [i \in 1..k |-> (n \div Pow(256, i - 1)) % 256]

RECURSIVE UnLE(_)
UnLE(bs) == IF bs = <<>> THEN 0 ELSE Head(bs) + 256 * UnLE(Tail(bs))

\* struct.pack raises struct.error for a number outside the format's range
FitsB(n) == n \in 0..255
FitsH(n) == n \in 0..65535
\* 0 <= n < 2^32, written without the constant 2^32
FitsL(n) == n >= 0 /\ n \div 65536 < 65536

----------------------------------------------------------------------------
(* dbfreader *)

\* f.read(n): the next n bytes, fewer at the end of the file
Read(n) == SubSeq(f, pos + 1, Min(pos + n, Len(f)))

\* 'DeletionFlag'
DeletionFlagName == <<68, 101, 108, 101, 116, 105, 111, 110, 70, 108, 97, 103>>
DeletionFlagField == [name |-> DeletionFlagName, typ |-> TypC, size |-> 1, deci |-> 0]

\* fmt = ''.join('%ds' % size ...); struct.calcsize(fmt)
RECURSIVE FmtSize(_)
FmtSize(fs) == IF fs = <<>> THEN 0 ELSE Head(fs).size + FmtSize(Tail(fs))

\* struct.unpack(fmt, raw): raw cut into one byte string per field
RECURSIVE Unpack(_, _)
Unpack(fs, raw) ==
    IF fs = <<>> THEN <<>>
    ELSE <<Take(raw, Head(fs).size)>> \o Unpack(Tail(fs), Drop(raw, Head(fs).size))

\* lines 43-65: the values of one record, or the first exception raised
RECURSIVE DecodeRecord(_, _, _)
DecodeRecord(fs, parts, acc) ==
    IF fs = <<>> THEN [err |-> "none", vals |-> acc]
    ELSE IF Head(fs).name = DeletionFlagName
         THEN DecodeRecord(Tail(fs), Tail(parts), acc)
    ELSE LET v == DecodeValue(Head(fs).typ, Head(fs).deci, Head(parts))
         IN  IF IsError(v) THEN [err |-> v.k, vals |-> acc]
             ELSE DecodeRecord(Tail(fs), Tail(parts), Append(acc, v))

FieldNamesOf(fs) == [i \in 1..Len(fs) |-> fs[i].name]
FieldSpecsOf(fs) == [i \in 1..Len(fs) |-> [typ |-> fs[i].typ, size |-> fs[i].size, deci |-> fs[i].deci]]

\* line 21, with the off-by-one a hand-written header size invites
FieldCountFromBlocks(lenhdr) == lenhdr \div 32 - 1

\* line 21: numfields = (lenheader - 33) // 32
FieldCount(lenhdr) == (lenhdr - 33) \div 32

ReaderFails(e) ==
    /\ rerr' = e
    /\ rpc' = "error"
    /\ UNCHANGED <<pos, numrec, lenheader, numfields, fields, ri, out>>

\* lines 20-21
ReadHeader ==
    /\ rpc = "header"
    /\ LET h == Read(32)
       IN  IF Len(h) < 32 THEN ReaderFails("struct.error")
           ELSE /\ numrec' = UnLE(SubSeq(h, 5, 8))
                /\ lenheader' = UnLE(SubSeq(h, 9, 10))
                /\ numfields' = FieldCount(UnLE(SubSeq(h, 9, 10)))
                /\ pos' = pos + 32
                /\ rpc' = "fields"
                /\ UNCHANGED <<fields, ri, out, rerr>>
    /\ UNCHANGED <<wvars, f, inp, fld, res>>

\* lines 24-27, one iteration
ReadFieldDescriptor ==
    /\ rpc = "fields"
    /\ Len(fields) < numfields
    /\ LET d == Read(32)
       IN  IF Len(d) < 32 THEN ReaderFails("struct.error")
           ELSE IF ~IsAscii(SubSeq(d, 1, 12)) THEN ReaderFails("UnicodeDecodeError")
           ELSE /\ fields' = Append(fields, [name |-> RemoveNul(SubSeq(d, 1, 11)),
                                             typ |-> d[12], size |-> d[17], deci |-> d[18]])
                /\ pos' = pos + 32
                /\ UNCHANGED <<rpc, numrec, lenheader, numfields, ri, out, rerr>>
    /\ UNCHANGED <<wvars, f, inp, fld, res>>

\* line 29
YieldNames ==
    /\ rpc = "fields"
    /\ Len(fields) >= numfields
    /\ out' = Append(out, [kind |-> "names", v |-> FieldNamesOf(fields)])
    /\ rpc' = "specs"
    /\ UNCHANGED <<pos, numrec, lenheader, numfields, fields, ri, rerr>>
    /\ UNCHANGED <<wvars, f, inp, fld, res>>

\* line 30
YieldSpecs ==
    /\ rpc = "specs"
    /\ out' = Append(out, [kind |-> "specs", v |-> FieldSpecsOf(fields)])
    /\ rpc' = "terminator"
    /\ UNCHANGED <<pos, numrec, lenheader, numfields, fields, ri, rerr>>
    /\ UNCHANGED <<wvars, f, inp, fld, res>>

\* lines 32-37 with the assert compiled away
ReadTerminatorUnchecked ==
    /\ rpc = "terminator"
    /\ pos' = pos + Len(Read(1))
    /\ fields' = <<DeletionFlagField>> \o fields
    /\ rpc' = "records"
    /\ UNCHANGED <<numrec, lenheader, numfields, ri, out, rerr>>
    /\ UNCHANGED <<wvars, f, inp, fld, res>>

\* lines 32-37
ReadTerminator ==
    /\ rpc = "terminator"
    /\ IF Read(1) # <<CR>> THEN ReaderFails("AssertionError")
       ELSE /\ pos' = pos + 1
            /\ fields' = <<DeletionFlagField>> \o fields
            /\ rpc' = "records"
            /\ UNCHANGED <<numrec, lenheader, numfields, ri, out, rerr>>
    /\ UNCHANGED <<wvars, f, inp, fld, res>>

\* lines 39-66, one iteration
ReadRecord ==
    /\ rpc = "records"
    /\ ri < numrec
    /\ LET raw == Read(FmtSize(fields))
           record == Unpack(fields, raw)
           result == DecodeRecord(fields, record, <<>>)
       IN  IF Len(raw) < FmtSize(fields) THEN ReaderFails("struct.error")
           ELSE IF record[1] # <<SP>>
           THEN /\ pos' = pos + Len(raw)
                /\ ri' = ri + 1
                /\ UNCHANGED <<rpc, numrec, lenheader, numfields, fields, out, rerr>>
           ELSE IF result.err # "none" THEN ReaderFails(result.err)
           ELSE /\ pos' = pos + Len(raw)
                /\ ri' = ri + 1
                /\ out' = Append(out, [kind |-> "record", v |-> result.vals])
                /\ UNCHANGED <<rpc, numrec, lenheader, numfields, fields, rerr>>
    /\ UNCHANGED <<wvars, f, inp, fld, res>>

\* line 39: the loop is exhausted and the generator returns
FinishRead ==
    /\ rpc = "records"
    /\ ri >= numrec
    /\ rpc' = "done"
    /\ UNCHANGED <<pos, numrec, lenheader, numfields, fields, ri, out, rerr>>
    /\ UNCHANGED <<wvars, f, inp, fld, res>>

ReaderNext ==
    \/ ReadHeader
    \/ ReadFieldDescriptor
    \/ YieldNames
    \/ YieldSpecs
    \/ ReadTerminator
    \/ ReadRecord
    \/ FinishRead

----------------------------------------------------------------------------
(* str(value) and the encoding of one value, dbfwriter lines 106-115. *)

RECURSIVE NatStr(_)
NatStr(n) == IF n < 10 THEN <<48 + n>> ELSE NatStr(n \div 10) \o <<48 + (n % 10)>>

Abs(n) == IF n < 0 THEN -n ELSE n
SignStr(n) == IF n < 0 THEN <<45>> ELSE <<>>

\* n as at least w digits, zero-filled
ZFill(n, w) == RJust(NatStr(n), w, 48)

\* the digits of n with a point before the last sc of them (sc > 0)
PointStr(n, sc) ==
    LET d == ZFill(Abs(n), sc + 1)
    IN  SignStr(n) \o SubSeq(d, 1, Len(d) - sc) \o <<46>> \o SubSeq(d, Len(d) - sc + 1, Len(d))

\* str(value); Decimal and float are in the range Python prints without an exponent
ToStr(v) ==
    IF v.k = "int" THEN SignStr(v.n) \o NatStr(Abs(v.n))
    ELSE IF v.k = "decimal"
         THEN (IF v.sc = 0 THEN SignStr(v.n) \o NatStr(Abs(v.n)) ELSE PointStr(v.n, v.sc))
    ELSE IF v.k = "float" THEN PointStr(v.n * (IF v.sc = 0 THEN 10 ELSE 1), Max(v.sc, 1))
    ELSE IF v.k = "date"
         THEN ZFill(v.s[1], 4) \o <<45>> \o ZFill(v.s[2], 2) \o <<45>> \o ZFill(v.s[3], 2)
    ELSE IF v.k = "bool"
         THEN (IF v.n = 1 THEN <<84, 114, 117, 101>> ELSE <<70, 97, 108, 115, 101>>)
    ELSE v.s

\* value.strftime('%Y%m%d'): the C library does not zero-fill %Y
StrfTime(v) == NatStr(v.s[1]) \o ZFill(v.s[2], 2) \o ZFill(v.s[3], 2)

Encoded(bytes) == [err |-> "none", bytes |-> bytes]
EncodeFails(e) == [err |-> e, bytes |-> <<>>]

\* .encode('ascii')
AsciiEncode(text) == IF IsAscii(text) THEN Encoded(text) ELSE EncodeFails("UnicodeEncodeError")

\* line 108
EncodeNumeric(size, value) == AsciiEncode(RJust(ToStr(value), size, SP))

\* line 110
EncodeDate(value) ==
    IF value.k # "date" THEN EncodeFails("AttributeError") ELSE AsciiEncode(StrfTime(value))

\* line 112
EncodeLogical(value) ==
    IF ToStr(value) = <<>> THEN EncodeFails("IndexError")
    ELSE AsciiEncode(<<Upper(ToStr(value)[1])>>)

\* line 114 without the [:size] slice
EncodeTextUncut(size, value) == AsciiEncode(LJust(ToStr(value), size, SP))

\* line 114
EncodeText(size, value) == AsciiEncode(LJust(Take(ToStr(value), size), size, SP))

\* line 115 with the assert compiled away
CheckSizeSkipped(size, e) == e

\* line 115: assert len(value) == size
CheckSize(size, e) ==
    IF e.err = "none" /\ Len(e.bytes) # size THEN EncodeFails("AssertionError") ELSE e

\* lines 107-115
EncodeValue(typ, size, value) ==
    CheckSize(size,
        IF typ = TypN THEN EncodeNumeric(size, value)
        ELSE IF typ = TypD THEN EncodeDate(value)
        ELSE IF typ = TypL THEN EncodeLogical(value)
        ELSE EncodeText(size, value))

----------------------------------------------------------------------------
(* dbfwriter *)

WriterFails(e) ==
    /\ werr' = e
    /\ wpc' = "error"
    /\ UNCHANGED <<f, wi, wr, wv, slots>>

\* the name cut to the ten characters the docstring allows
Pack10s(name) == LJust(Take(name, 10), 11, NUL)

\* struct.pack('<11s', name): cut or NUL-filled to 11 bytes
Pack11s(name) == LJust(Take(name, 11), 11, NUL)

\* line 89 without the terminator byte
LenHeaderNoTerminator(nfields) == nfields * 32 + 32

\* line 89: lenheader = numfields * 32 + 33
LenHeader(nfields) == nfields * 32 + 33

\* line 90: lenrecord = sum(field[1] for field in fieldspecs) + 1
LenRecord(specs) == SumSizes(specs) + 1

\* lines 84-92
WriteHeader ==
    /\ wpc = "header"
    /\ LET yr == today[1] - 1900
           lenhdr == LenHeader(Len(fieldspecs))
           lenrecord == LenRecord(fieldspecs)
       IN  IF ~(FitsB(yr) /\ FitsB(today[2]) /\ FitsB(today[3]) /\ FitsL(Len(records))
                /\ FitsH(lenhdr) /\ FitsH(lenrecord))
           THEN WriterFails("struct.error")
           ELSE /\ f' = f \o <<VER, yr, today[2], today[3]>> \o LE(Len(records), 4)
                           \o LE(lenhdr, 2) \o LE(lenrecord, 2) \o Rep(0, 20)
                /\ wpc' = "fields"
                /\ UNCHANGED <<wi, wr, wv, slots, werr>>
    /\ UNCHANGED <<fieldnames, fieldspecs, records, today, rvars, inp, fld, res>>

\* lines 95-98, one iteration of the loop over zip(fieldnames, fieldspecs)
WriteFieldSpec ==
    /\ wpc = "fields"
    /\ wi < Min(Len(fieldnames), Len(fieldspecs))
    /\ LET name == AsciiEncode(LJust(fieldnames[wi + 1], 11, NUL))
           spec == fieldspecs[wi + 1]
       IN  IF name.err # "none" \/ spec.typ >= 128 THEN WriterFails("UnicodeEncodeError")
           ELSE IF ~(FitsB(spec.size) /\ FitsB(spec.deci)) THEN WriterFails("struct.error")
           ELSE /\ f' = f \o Pack11s(name.bytes) \o <<spec.typ>> \o Rep(0, 4)
                           \o <<spec.size, spec.deci>> \o Rep(0, 14)
                /\ wi' = wi + 1
                /\ UNCHANGED <<wpc, wr, wv, slots, werr>>
    /\ UNCHANGED <<fieldnames, fieldspecs, records, today, rvars, inp, fld, res>>

\* line 101
WriteTerminator ==
    /\ wpc = "fields"
    /\ wi >= Min(Len(fieldnames), Len(fieldspecs))
    /\ f' = f \o <<CR>>
    /\ wpc' = "records"
    /\ UNCHANGED <<wi, wr, wv, slots, werr>>
    /\ UNCHANGED <<fieldnames, fieldspecs, records, today, rvars, inp, fld, res>>

\* lines 104-105: the next record's deletion flag
WriteDeletionFlag ==
    /\ wpc = "records"
    /\ wr < Len(records)
    /\ f' = f \o <<SP>>
    /\ slots' = Append(slots, 1)
    /\ wv' = 0
    /\ wpc' = "values"
    /\ UNCHANGED <<wi, wr, werr>>
    /\ UNCHANGED <<fieldnames, fieldspecs, records, today, rvars, inp, fld, res>>

\* lines 106-116, one iteration of the loop over zip(fieldspecs, record)
WriteValue ==
    /\ wpc = "values"
    /\ wv < Min(Len(fieldspecs), Len(records[wr + 1]))
    /\ LET spec == fieldspecs[wv + 1]
           e == EncodeValue(spec.typ, spec.size, records[wr + 1][wv + 1])
       IN  IF e.err # "none" THEN WriterFails(e.err)
           ELSE /\ f' = f \o e.bytes
                /\ slots' = [slots EXCEPT ![Len(slots)] = @ + Len(e.bytes)]
                /\ wv' = wv + 1
                /\ UNCHANGED <<wpc, wi, wr, werr>>
    /\ UNCHANGED <<fieldnames, fieldspecs, records, today, rvars, inp, fld, res>>

\* line 106: the record's values are exhausted
EndRecord ==
    /\ wpc = "values"
    /\ wv >= Min(Len(fieldspecs), Len(records[wr + 1]))
    /\ wr' = wr + 1
    /\ wpc' = "records"
    /\ UNCHANGED <<f, wi, wv, slots, werr>>
    /\ UNCHANGED <<fieldnames, fieldspecs, records, today, rvars, inp, fld, res>>

\* line 119
WriteEOF ==
    /\ wpc = "records"
    /\ wr >= Len(records)
    /\ f' = f \o <<EOFMARK>>
    /\ wpc' = "done"
    /\ UNCHANGED <<wi, wr, wv, slots, werr>>
    /\ UNCHANGED <<fieldnames, fieldspecs, records, today, rvars, inp, fld, res>>

WriterNext ==
    \/ WriteHeader
    \/ WriteFieldSpec
    \/ WriteTerminator
    \/ WriteDeletionFlag
    \/ WriteValue
    \/ EndRecord
    \/ WriteEOF

----------------------------------------------------------------------------
(* Bounds and input sets. *)

MaxRecords == 2
MaxFieldSize == 3

\* all sequences over S of length at most n
SeqsUpTo(S, n) == UNION {[1..k -> S] : k \in 0..n}

Todays == {<<2024, 3, 9>>, <<2026, 11, 3>>}

Pending == Raise("pending")
NoInput == [schema |-> <<>>, lenheader |-> 0, term |-> <<>>, numrec |-> 0, slots |-> <<>>]
NoField == [typ |-> 0, size |-> 0, deci |-> 0, raw |-> <<>>]

WriterIdle ==
    /\ fieldnames = <<>> /\ fieldspecs = <<>> /\ records = <<>>
    /\ today \in {<<2024, 3, 9>>}
    /\ wpc = "idle" /\ wi = 0 /\ wr = 0 /\ wv = 0 /\ slots = <<>> /\ werr = "none"

ReaderAt(p) ==
    /\ pos = 0 /\ rpc = p /\ numrec = 0 /\ lenheader = 0 /\ numfields = 0
    /\ fields = <<>> /\ ri = 0 /\ out = <<>> /\ rerr = "none"

----------------------------------------------------------------------------
(* One field's conversion on its own: every raw text of a bounded size. *)

\* ' ', NUL, '-', '.', '0', '1', '5'
NumericBytes == {32, 0, 45, 46, 48, 49, 53}
\* 'Y' 'y' 'T' 't' 'N' 'n' 'F' 'f' '?' ' ' and a non-ASCII byte
LogicalBytes == {89, 121, 84, 116, 78, 110, 70, 102, 63, 32, 233}
\* 'a', ' ', NUL
TextBytes == {97, 32, 0}
\* "20240309" "20241309" "20230229" "2024 3 9" "        "
DateTexts == {<<50, 48, 50, 52, 48, 51, 48, 57>>, <<50, 48, 50, 52, 49, 51, 48, 57>>,
              <<50, 48, 50, 51, 48, 50, 50, 57>>, <<50, 48, 50, 52, 32, 51, 32, 57>>,
              <<32, 32, 32, 32, 32, 32, 32, 32>>}

DecodeInputs ==
    {[typ |-> typ, size |-> Len(raw), deci |-> deci, raw |-> raw] :
        typ \in {TypN, TypF}, deci \in 0..2, raw \in SeqsUpTo(NumericBytes, MaxFieldSize)}
    \cup {[typ |-> TypL, size |-> Len(raw), deci |-> 0, raw |-> raw] :
        raw \in SeqsUpTo(LogicalBytes, 2)}
    \cup {[typ |-> TypC, size |-> Len(raw), deci |-> 0, raw |-> raw] :
        raw \in SeqsUpTo(TextBytes, MaxFieldSize)}
    \cup {[typ |-> TypD, size |-> Len(raw), deci |-> 0, raw |-> raw] : raw \in DateTexts}

InitDecode ==
    /\ WriterIdle /\ ReaderAt("idle")
    /\ f = <<>> /\ inp = NoInput
    /\ fld \in DecodeInputs
    /\ res = Pending

\* lines 44-65 applied to one field
DecodeField ==
    /\ res = Pending
    /\ fld # NoField
    /\ res' = DecodeValue(fld.typ, fld.deci, fld.raw)
    /\ UNCHANGED <<wvars, rvars, f, inp, fld>>

SpecDecode == InitDecode /\ [][DecodeField]_vars

----------------------------------------------------------------------------
(* dbfreader on its own: file images built from a structured input. *)

Desc(name, typ, size, deci) == [name |-> name, typ |-> typ, size |-> size, deci |-> deci]

\* ("A", N, 2, 0)   ("B", L, 1, 0)   ("C", C, 1, 0)
ReaderSchemas ==
    { <<>>,
      <<Desc(<<65>>, TypN, 2, 0)>>,
      <<Desc(<<66>>, TypL, 1, 0)>>,
      <<Desc(<<65>>, TypN, 2, 0), Desc(<<67>>, TypC, 1, 0)>> }

\* raw texts a slot may hold for a field: valid ones, and for N an invalid one
WellFormedTexts(d) ==
    IF d.typ = TypN THEN {<<32, 55>>, <<32, 32>>}          \* " 7", "  "
    ELSE IF d.typ = TypL THEN {<<84>>, <<70>>, <<63>>}     \* "T", "F", "?"
    ELSE {<<97>>, <<32>>}                                  \* "a", " "

FieldTexts(d) ==
    WellFormedTexts(d) \cup (IF d.typ = TypN THEN {<<120, 49>>} ELSE {})   \* "x1"

\* ' ' (active), '*' (deleted), NUL
FlagBytes == {SP, 42, 0}

RECURSIVE PartsFor(_)
PartsFor(schema) ==
    IF schema = <<>> THEN {<<>>}
    ELSE {<<x>> \o rest : x \in FieldTexts(Head(schema)), rest \in PartsFor(Tail(schema))}

SlotsFor(schema) == {[flag |-> fl, parts |-> ps] : fl \in FlagBytes, ps \in PartsFor(schema)}

\* one active slot holding the first valid text of every field
RECURSIVE PlainParts(_)
PlainParts(schema) ==
    IF schema = <<>> THEN <<>>
    ELSE <<IF Head(schema).typ = TypN THEN <<32, 55>>
           ELSE IF Head(schema).typ = TypL THEN <<84>> ELSE <<97>>>> \o PlainParts(Tail(schema))

PlainSlot(schema) == [flag |-> SP, parts |-> PlainParts(schema)]

HeaderLengths == {0, 32, 33, 34, 64, 65, 66, 96, 97, 98}

\* headers: any header length and terminator over a well-formed body
HeaderInputs ==
    {[schema |-> sc, lenheader |-> lh, term |-> tm, numrec |-> n,
      slots |-> [i \in 1..n |-> PlainSlot(sc)]] :
        sc \in ReaderSchemas, lh \in HeaderLengths, tm \in {<<CR>>, <<SP>>, <<>>}, n \in 0..1}

\* record slots: a consistent header over the slots ss, of which it announces n
SlotInput(sc, n, ss) ==
    [schema |-> sc, lenheader |-> 33 + 32 * Len(sc), term |-> <<CR>>, numrec |-> n, slots |-> ss]

RECURSIVE Flatten(_)
Flatten(ss) == IF ss = <<>> THEN <<>> ELSE Head(ss) \o Flatten(Tail(ss))

DescriptorBytes(d) ==
    LJust(d.name, 11, NUL) \o <<d.typ>> \o Rep(0, 4) \o <<d.size, d.deci>> \o Rep(0, 14)

SlotBytes(s) == <<s.flag>> \o Flatten(s.parts)

\* the file image of an input, in the layout dbfreader expects
Image(i) ==
    <<VER, 124, 3, 9>> \o LE(i.numrec, 4) \o LE(i.lenheader, 2)
        \o LE(FmtSize(i.schema) + 1, 2) \o Rep(0, 20)
    \o Flatten([k \in 1..Len(i.schema) |-> DescriptorBytes(i.schema[k])])
    \o i.term
    \o Flatten([k \in 1..Len(i.slots) |-> SlotBytes(i.slots[k])])
    \o <<EOFMARK>>

InitReader ==
    /\ WriterIdle /\ ReaderAt("header")
    /\ \E family \in {"headers", "slots"} :
        IF family = "headers" THEN inp \in HeaderInputs
        ELSE \E sc \in ReaderSchemas : \E n \in 0..MaxRecords : \E k \in 0..MaxRecords :
                \E ss \in [1..k -> SlotsFor(sc)] : inp = SlotInput(sc, n, ss)
    /\ f = Image(inp)
    /\ fld = NoField /\ res = Pending

SpecReader == InitReader /\ [][ReaderNext]_vars

----------------------------------------------------------------------------
(* dbfwriter on its own: arguments of every shape, matching or not. *)

FieldSpec(typ, size, deci) == [typ |-> typ, size |-> size, deci |-> deci]

\* "ID", a 10-character name, an 11-character name, a 12-character name,
\* a name holding a NUL, a name holding a non-ASCII character
WriterNames ==
    { <<73, 68>>,
      <<65, 66, 67, 68, 69, 70, 71, 72, 73, 74>>,
      <<65, 66, 67, 68, 69, 70, 71, 72, 73, 74, 75>>,
      <<65, 66, 67, 68, 69, 70, 71, 72, 73, 74, 75, 76>>,
      <<65, 0, 66>>,
      <<233>> }

\* specs of the fields: N(2) C(2) L(1) D(8) D(4) L(2) F(3) M(2)
WriterSchemas ==
    { <<>>,
      <<FieldSpec(TypN, 2, 0)>>,
      <<FieldSpec(TypC, 2, 0)>>,
      <<FieldSpec(TypN, 2, 0), FieldSpec(TypC, 2, 0)>>,
      <<FieldSpec(TypL, 1, 0), FieldSpec(TypD, 8, 0)>>,
      <<FieldSpec(TypD, 4, 0)>>,
      <<FieldSpec(TypL, 2, 0)>>,
      <<FieldSpec(TypF, 3, 0)>>,
      <<FieldSpec(77, 2, 0)>> }

\* values a caller may pass for a field of a type, fitting its width or not
WriterValues(spec) ==
    IF spec.typ = TypN THEN {PyInt(7), PyInt(-1), PyInt(123), PyDecimal(15, 1)}
    ELSE IF spec.typ = TypD THEN {PyDate(2024, 3, 9), PyDate(999, 1, 1)}
    ELSE IF spec.typ = TypL
         THEN {PyStr(<<84>>), PyStr(<<102>>), PyBool(TRUE), PyStr(<<>>)}    \* 'T' 'f' True ''
    ELSE IF spec.typ = TypF THEN {PyFloat(15, 1), PyFloat(125, 1)}          \* 1.5 12.5
    ELSE {PyStr(<<97>>), PyStr(<<97, 98, 99>>), PyStr(<<>>), PyStr(<<233>>)} \* 'a' 'abc' '' and non-ASCII

\* the records a caller may pass for a schema: one value per field, or fewer, or one more
RECURSIVE WriterRecords(_)
WriterRecords(specs) ==
    IF specs = <<>> THEN {<<>>, <<PyInt(7)>>}
    ELSE {<<>>} \cup {<<v>> \o rest : v \in WriterValues(Head(specs)),
                                      rest \in WriterRecords(Tail(specs))}

NamesForLength(n) == [i \in 1..n |-> IF i = 1 THEN <<73, 68>> ELSE <<78, 65, 77, 69>>]

\* names of every length against a fixed body
NameInputs ==
    {[names |-> ns, specs |-> ss, recs |-> rs] :
        ns \in SeqsUpTo(WriterNames, 2),
        ss \in {<<>>, <<FieldSpec(TypN, 2, 0)>>,
                <<FieldSpec(TypN, 2, 0), FieldSpec(TypC, 2, 0)>>},
        rs \in {<<>>, <<<<PyInt(7), PyStr(<<97>>)>>>>}}

\* values of every shape under matching names
ValueInput(ss, rs) == [names |-> NamesForLength(Len(ss)), specs |-> ss, recs |-> rs]

\* dbfwriter is called with the arguments a
CalledWith(a) ==
    /\ fieldnames = a.names
    /\ fieldspecs = a.specs
    /\ records = a.recs

InitWriter ==
    /\ \E family \in {"names", "values"} :
        IF family = "names" THEN \E a \in NameInputs : CalledWith(a)
        ELSE \E ss \in WriterSchemas : \E k \in 0..MaxRecords :
                \E rs \in [1..k -> WriterRecords(ss)] : CalledWith(ValueInput(ss, rs))
    /\ today \in Todays
    /\ wpc = "header" /\ wi = 0 /\ wr = 0 /\ wv = 0 /\ slots = <<>> /\ werr = "none"
    /\ f = <<>>
    /\ ReaderAt("idle")
    /\ inp = NoInput /\ fld = NoField /\ res = Pending

SpecWriter == InitWriter /\ [][WriterNext]_vars

----------------------------------------------------------------------------
(* Round trip: dbfwriter's file read back by dbfreader (lines 145-153).     *)
(* The datasets respect the field widths: names of at most ten characters, *)
(* every record one value per field, each value of its field's type and    *)
(* no wider than the field.                                                *)

\* ("ID", N, 2, 0)  ("PRICE", N, 4, 2)  ("NAME", C, 2, 0)
\* ("BORN", D, 8, 0)  ("OK", L, 1, 0)  ("X", F, 3, 0)
FieldID == Desc(<<73, 68>>, TypN, 2, 0)
FieldPRICE == Desc(<<80, 82, 73, 67, 69>>, TypN, 4, 2)
FieldNAME == Desc(<<78, 65, 77, 69>>, TypC, 2, 0)
FieldBORN == Desc(<<66, 79, 82, 78>>, TypD, 8, 0)
FieldOK == Desc(<<79, 75>>, TypL, 1, 0)
FieldX == Desc(<<88>>, TypF, 3, 0)

RoundTripSchemas ==
    { <<>>, <<FieldID>>, <<FieldID, FieldNAME>>, <<FieldPRICE>>, <<FieldBORN>>,
      <<FieldOK>>, <<FieldX>>, <<FieldBORN, FieldOK>> }

FittingValues(d) ==
    IF d.typ = TypN /\ d.deci = 0 THEN {PyInt(7), PyInt(-1), PyInt(10)}
    ELSE IF d.typ = TypN THEN {PyDecimal(150, 2), PyDecimal(5, 2)}        \* 1.50  0.05
    ELSE IF d.typ = TypD THEN {PyDate(2024, 3, 9), PyDate(1999, 12, 31)}
    ELSE IF d.typ = TypL THEN {PyStr(<<84>>), PyStr(<<70>>)}              \* 'T' 'F'
    ELSE IF d.typ = TypF THEN {PyFloat(15, 1), PyFloat(2, 0)}             \* 1.5  2.0
    ELSE {PyStr(<<97>>), PyStr(<<97, 98>>), PyStr(<<>>), PyStr(<<32, 97>>)} \* 'a' 'ab' '' ' a'

RECURSIVE FittingRecords(_)
FittingRecords(schema) ==
    IF schema = <<>> THEN {<<>>}
    ELSE {<<v>> \o rest : v \in FittingValues(Head(schema)),
                          rest \in FittingRecords(Tail(schema))}

Init ==
    /\ \E schema \in RoundTripSchemas :
        /\ fieldnames = FieldNamesOf(schema)
        /\ fieldspecs = FieldSpecsOf(schema)
        /\ \E k \in 0..MaxRecords : records \in [1..k -> FittingRecords(schema)]
    /\ today \in Todays
    /\ wpc = "header" /\ wi = 0 /\ wr = 0 /\ wv = 0 /\ slots = <<>> /\ werr = "none"
    /\ f = <<>>
    /\ ReaderAt("idle")
    /\ inp = NoInput /\ fld = NoField /\ res = Pending

\* lines 151-152: f.seek(0); dbfreader(f)
OpenForRead ==
    /\ wpc = "done"
    /\ rpc = "idle"
    /\ rpc' = "header"
    /\ pos' = 0
    /\ UNCHANGED <<numrec, lenheader, numfields, fields, ri, out, rerr>>
    /\ UNCHANGED <<wvars, f, inp, fld, res>>

Next == WriterNext \/ OpenForRead \/ ReaderNext

Spec == Init /\ [][Next]_vars

----------------------------------------------------------------------------
(* Properties. *)

Item(kind, v) == [kind |-> kind, v |-> v]

\* what a faithful round trip yields: the names, the specs, then every record
RoundTripExpected ==
    <<Item("names", fieldnames), Item("specs", fieldspecs)>>
        \o [i \in 1..Len(records) |-> Item("record", records[i])]

\* C1: once dbfreader has finished with the file dbfwriter wrote for a dataset
\* that respects the field widths, it has raised nothing and has yielded the
\* same names, then the same specs, then the same records in the same order.
C1_RoundTrip ==
    rpc \in {"done", "error"} => rerr = "none" /\ out = RoundTripExpected

\* the input's header is consistent, its slots are all there, and every
\* active slot holds a valid text in every field
WellFormedInput ==
    /\ inp.lenheader = 33 + 32 * Len(inp.schema)
    /\ inp.term = <<CR>>
    /\ inp.numrec <= Len(inp.slots)
    /\ \A i \in 1..Len(inp.slots) :
        inp.slots[i].flag = SP =>
            \A j \in 1..Len(inp.schema) :
                inp.slots[i].parts[j] \in WellFormedTexts(inp.schema[j])

ActiveSlots == {i \in 1..inp.numrec : inp.slots[i].flag = SP}

\* C2: over well-formed slots dbfreader raises nothing, yields the names
\* first and the specs second, and when it ends it has yielded exactly one
\* record per slot whose flag is 0x20; the other slots yield nothing.
C2_OneRecordPerActiveSlot ==
    WellFormedInput =>
        /\ rerr = "none"
        /\ Len(out) >= 1 => out[1].kind = "names"
        /\ Len(out) >= 2 => out[2].kind = "specs"
        /\ \A i \in 3..Len(out) : out[i].kind = "record"
        /\ rpc = "done" => Len(out) = 2 + Cardinality(ActiveSlots)

Decoded == res # Pending

\* C3: a one-character logical field decodes to 'T' for Y y T t, to 'F' for
\* N n F f and to '?' for any other character, and never fails.
C3_LogicalDecode ==
    (Decoded /\ fld.typ = TypL /\ fld.size = 1 /\ IsAscii(fld.raw)) =>
        res = IF IsSubstring(fld.raw, YyTt) THEN PyStr(<<84>>)
              ELSE IF IsSubstring(fld.raw, NnFf) THEN PyStr(<<70>>)
              ELSE PyStr(<<63>>)

\* C4 as stated: a schema is yielded only for a header length of at least 33
\* with (header_length - 33) % 32 = 0.
C4_HeaderLengthValidated ==
    Len(out) >= 1 => inp.lenheader >= 33 /\ (inp.lenheader - 33) % 32 = 0

\* C4, amended: the header length is never validated.  Whatever it is, the
\* schema yielded has max(0, floor((header_length - 33) / 32)) fields, and
\* the only failure before the schema is a file too short to hold that many
\* descriptors.
C4_FieldCountFromHeaderLength ==
    LET n == Max(0, (inp.lenheader - 33) \div 32)
    IN  /\ Len(out) >= 1 => Len(out[1].v) = n
        /\ Len(out) >= 2 => Len(out[2].v) = n
        /\ (rpc = "error" /\ out = <<>>) =>
               rerr = "struct.error" /\ Len(f) < 32 + 32 * n

C4_BadLengthAccepted ==
    /\ (inp.lenheader - 33) % 32 # 0
    /\ inp.lenheader > 33
    /\ Len(out) >= 2
    /\ Len(out[1].v) = 1

\* the byte after the descriptors dbfreader has read
TerminatorIndex == 33 + 32 * Max(0, numfields)
TerminatorIsCR == TerminatorIndex <= Len(f) /\ f[TerminatorIndex] = CR

\* C5 as stated: when the terminator is not 0x0D the failure comes before
\* any schema value or record is produced.
C5_NoSchemaOnBadTerminator ==
    rerr = "AssertionError" => out = <<>>

\* C5, amended: when the terminator is not 0x0D dbfreader fails with the
\* assertion, after it has yielded the names and the specs and before any
\* record; it reads records only behind a 0x0D terminator.
C5_FailsAfterSchema ==
    /\ rerr = "AssertionError" =>
           /\ ~TerminatorIsCR
           /\ Len(out) = 2 /\ out[1].kind = "names" /\ out[2].kind = "specs"
    /\ (rpc \in {"records", "done"} \/ Len(out) > 2) => TerminatorIsCR
    /\ (rpc = "error" /\ Len(out) = 2 /\ rerr # "AssertionError") => TerminatorIsCR

C5_BadTerminatorSeen ==
    /\ rerr = "AssertionError"
    /\ Len(out) = 2
    /\ Len(out[1].v) = 2
    /\ inp.term = <<SP>>

\* the numeric text as the conversion sees it
NumericText == Strip(RemoveNul(fld.raw))
NumericBody == IF NumericText # <<>> /\ NumericText[1] \in {45, 43} THEN Tail(NumericText)
               ELSE NumericText
DotCount == Cardinality({i \in 1..Len(NumericBody) : NumericBody[i] = 46})
DigitCount == Cardinality({i \in 1..Len(NumericBody) : NumericBody[i] \in Digits})
\* [sign] digits, with at most one '.' among them
IsPlainDecimal ==
    DigitCount >= 1 /\ DotCount <= 1 /\ DigitCount + DotCount = Len(NumericBody)
IsPlainInteger == IsPlainDecimal /\ DotCount = 0
FractionDigits ==
    IF DotCount = 0 THEN 0
    ELSE Cardinality({i \in 1..Len(NumericBody) :
                        \E j \in 1..(i - 1) : NumericBody[j] = 46})

DecodedNumeric == Decoded /\ fld.typ = TypN /\ IsAscii(fld.raw)

\* C6 as stated: a valid number decodes to an integer when decimal_count = 0
\* and to a decimal of scale exactly decimal_count otherwise; blank text
\* decodes to the integer 0.
C6_ScaleIsDecimalCount ==
    DecodedNumeric =>
        /\ NumericText = <<>> => res = PyInt(0)
        /\ (IsPlainDecimal /\ fld.deci = 0) => res.k = "int"
        /\ (IsPlainDecimal /\ fld.deci > 0) => res.k = "decimal" /\ res.sc = fld.deci

\* C6, amended: a numeric field never decodes to a float.  Blank text gives
\* the integer 0; with decimal_count = 0 an integer literal gives an integer;
\* with decimal_count > 0 a plain decimal literal gives a decimal whose scale
\* is the number of digits after the point in the text, whatever decimal_count.
C6_ScaleIsFractionDigits ==
    DecodedNumeric =>
        /\ res.k # "float"
        /\ NumericText = <<>> => res = PyInt(0)
        /\ (IsPlainInteger /\ fld.deci = 0) => res.k = "int"
        /\ (IsPlainDecimal /\ fld.deci > 0) =>
               res.k = "decimal" /\ res.sc = FractionDigits
        /\ res.k = "decimal" => fld.deci > 0
        /\ res.k = "int" => fld.deci = 0 \/ NumericText = <<>>

C6_ScaleDiffers ==
    /\ DecodedNumeric
    /\ fld.deci = 2
    /\ res.k = "decimal"
    /\ res.sc = 1


\* dbfwriter is about to encode the next value of the current record
AtValue == wpc = "values" /\ wv < Min(Len(fieldspecs), Len(records[wr + 1]))
NextSpec == fieldspecs[wv + 1]
NextValue == records[wr + 1][wv + 1]
NextText == ToStr(NextValue)
TextLike(typ) == typ \notin {TypN, TypD, TypL}

\* C7: encoding a value of a text-like field (any tag other than N, D, L)
\* appends exactly `size` bytes to the file: the first `size` characters of
\* the text, then spaces; it never fails the size assertion.
C7_TextCutOrPadded ==
    [][(AtValue /\ TextLike(NextSpec.typ)) =>
          /\ werr' # "AssertionError"
          /\ IsAscii(Take(NextText, NextSpec.size)) =>
                /\ werr' = "none"
                /\ Len(f') = Len(f) + NextSpec.size
                /\ SubSeq(f', 1, Len(f)) = f
                /\ \A i \in 1..NextSpec.size :
                      f'[Len(f) + i] = IF i <= Len(NextText) THEN NextText[i] ELSE SP]_vars

\* the value just written was a text longer than its field
C7_LongTextWritten ==
    /\ wpc = "values" /\ wv >= 1 /\ werr = "none"
    /\ TextLike(fieldspecs[wv].typ)
    /\ Len(ToStr(records[wr + 1][wv])) > fieldspecs[wv].size
    /\ Len(f) > fieldspecs[wv].size

\* the bytes a numeric, date or logical value encodes to, before the size check:
\* the number's text behind spaces, the date's digits, the first character in
\* upper case
NaturalBytes ==
    IF NextSpec.typ = TypN
    THEN [i \in 1..Max(NextSpec.size, Len(NextText)) |->
            IF i <= Max(NextSpec.size, Len(NextText)) - Len(NextText) THEN SP
            ELSE NextText[i - (Max(NextSpec.size, Len(NextText)) - Len(NextText))]]
    ELSE IF NextSpec.typ = TypD
    THEN NatStr(NextValue.s[1]) \o ZFill(NextValue.s[2], 2) \o ZFill(NextValue.s[3], 2)
    ELSE <<Upper(NextText[1])>>

\* the value is one its field's type can hold
Encodable ==
    /\ IsAscii(NextText)
    /\ NextSpec.typ = TypN => NextValue.k \in {"int", "decimal"}
    /\ NextSpec.typ = TypD => NextValue.k = "date"
    /\ NextSpec.typ = TypL => NextText # <<>>

NameArea(i) == SubSeq(f, 32 * i + 1, 32 * i + 11)

\* C9 as stated: no descriptor is written for a name longer than 10 bytes.
C9_LongNameRejected ==
    \A i \in 1..wi : Len(fieldnames[i]) <= 10

\* C9, amended: a name is never rejected for its length.  A name of at most
\* 10 bytes is stored followed only by NUL bytes, at least one, and decodes
\* to itself when it holds no NUL; a name of 11 bytes fills the area with no
\* NUL behind it; a longer name is cut to its first 11 bytes.  The only
\* failure while the descriptors are written is a name that is not ASCII.
C9_NameAreaHoldsName ==
    /\ \A i \in 1..wi :
        LET name == fieldnames[i]
        IN  /\ Len(NameArea(i)) = 11
            /\ \A j \in 1..11 : NameArea(i)[j] = IF j <= Len(name) THEN name[j] ELSE NUL
            /\ Len(name) <= 10 => NameArea(i)[11] = NUL
            /\ (Len(name) <= 11 /\ \A j \in 1..Len(name) : name[j] # NUL) =>
                   RemoveNul(NameArea(i)) = name
    /\ (wpc = "error" /\ f # <<>> /\ Len(f) = 32 + 32 * wi) =>
           werr = "UnicodeEncodeError" /\ ~IsAscii(fieldnames[wi + 1])

\* descriptors were written for a 12-byte name and an 11-byte name
C9_LongNamesWritten ==
    /\ wi = 2
    /\ Len(fieldnames[1]) = 12
    /\ Len(fieldnames[2]) = 11

RECURSIVE Sum(_)
Sum(s) == IF s = <<>> THEN 0 ELSE Head(s) + Sum(Tail(s))

\* the sizes stored in the header agree with the bytes that follow it
ImageConsistent ==
    /\ UnLE(SubSeq(f, 9, 10)) = 33 + 32 * wi
    /\ UnLE(SubSeq(f, 11, 12)) = 1 + SumSizes(SubSeq(fieldspecs, 1, wi))
    /\ \A i \in 1..Len(slots) : slots[i] = UnLE(SubSeq(f, 11, 12))
    /\ UnLE(SubSeq(f, 5, 8)) = Len(slots)
    /\ Len(f) = 33 + 32 * wi + Sum(slots) + 1
    /\ f[33 + 32 * wi] = CR
    /\ f[Len(f)] = EOFMARK

\* C10 as stated: every complete image is consistent, whatever the arguments.
C10_AnyArguments ==
    wpc = "done" => ImageConsistent

ArgumentsMatch ==
    /\ Len(fieldnames) >= Len(fieldspecs)
    /\ \A r \in 1..Len(records) : Len(records[r]) >= Len(fieldspecs)

\* C10, amended: a complete image is consistent when there are at least as
\* many names as field specs and every record has at least as many values as
\* there are field specs: header_length = 33 + 32 x descriptors written,
\* record_length = 1 + the sum of their sizes = the size of every slot,
\* record_count = the number of slots, and one 0x1A ends the image.
C10_MatchingArguments ==
    (wpc = "done" /\ ArgumentsMatch) => ImageConsistent

C10_TwoSlotsWritten ==
    /\ wpc = "done" /\ ArgumentsMatch
    /\ wi = 2 /\ Len(slots) = 2

====
